---- MODULE Spec2Model ----
(***************************************************************************)
(* Dijkstra's shortest path over an adjacency-list graph with an indexed   *)
(* binary min-heap (graph.c, minheap.c, dijkstras.c, main.c).              *)
(*                                                                         *)
(* Slots and vertex numbers are zero-based as in the C code; the TLA+      *)
(* sequences that hold them are one-based, so slot p of the heap is        *)
(* heap[p + 1] and vertex k of the graph is adjLists[k + 1].               *)
(***************************************************************************)
EXTENDS Integers, Sequences, FiniteSets, TLC

VARIABLES
    adjLists,         \* Graph.adjLists: the Vertex structs, by vertexNumber
    heap,             \* MinHeap.heap: the Node structs, by slot (size = Len)
    pc,               \* position of the program
    ret,              \* where a sift loop returns to
    currentPosition,  \* the sift loops' currentPosition
    source,           \* fastestRoute's startVertexNumber / dijkstras' source
    dest,             \* fastestRoute's endVertexNumber
    i,                \* loop index of dijkstras' reset loop and of the walk
    u,                \* dijkstras' u (vertex number of the dequeued Vertex)
    j,                \* dijkstras' edge index j
    route,            \* dijkstrasWriteToFile's routeCityNames (reverse order)
    walk,             \* vertex numbers visited by the walk (reverse order)
    output,           \* what dijkstrasWriteToFile wrote for the current query
    popped,           \* history: <<vertex, heap value>> of the dequeues
    lastOp,           \* history: what the last heap operation did
    query,            \* fastestRoute's start and end, as fscanf read them
    answered          \* history: a query of this batch has been answered

vars ==
    <<adjLists, heap, pc, ret, currentPosition, source, dest, i, u, j,
      route, walk, output, popped, lastOp, query, answered>>

-----------------------------------------------------------------------------
(* Bounds of the model and constants of the program *)

INT_MAX == 2147483647

INT_MIN == -INT_MAX - 1

NoVertex == -1

MaxRecords == 3

MaxHeapVertices == 4

Names == <<"A", "B", "C">>

Weights == {1, 3}

BadWeights == {0}

\* The distances dijkstras enqueues a vertex with (0 for the source, INT_MAX
\* for every other vertex) and a distance in between.
HeapValues == {0, 1, INT_MAX}

\* What line 82 of dijkstras.c computes for INT_MAX + 1 on a two's complement
\* build, and then hands to minHeapDecreaseNodeValue.
WrappedValues == {INT_MIN}

-----------------------------------------------------------------------------
(* graph.c: the Vertex struct and its getters and setters *)

vertexConstructor(vertexNumber, cityName) ==
    [ vertexNumber       |-> vertexNumber,
      cityName           |-> cityName,
      edges              |-> << >>,
      positionInHeap     |-> -1,
      previous           |-> NoVertex,
      distanceFromSource |-> INT_MAX,
      visited            |-> 0 ]

graphGetNumberOfCities(G) == Len(G)

graphGetVertex(G, vertexNumber) == G[vertexNumber + 1]

\* Mutant: the slot is written into the Vertex's vertexNumber.
vertexSetPositionInHeap_IntoNumber(G, vertex, position) ==
    [G EXCEPT ![vertex + 1].vertexNumber = position]

vertexSetPositionInHeap(G, vertex, position) ==
    [G EXCEPT ![vertex + 1].positionInHeap = position]

vertexSetDistanceFromSource(G, vertex, distance) ==
    [G EXCEPT ![vertex + 1].distanceFromSource = distance]

vertexSetPrevious(G, vertex, previousVertex) ==
    [G EXCEPT ![vertex + 1].previous = previousVertex]

vertexSetIsVisited(G, vertex) == [G EXCEPT ![vertex + 1].visited = 1]

\* Mutant: the visited mark of an earlier run is kept.
vertexSetIsNotVisited_Kept(G, vertex) == G

vertexSetIsNotVisited(G, vertex) == [G EXCEPT ![vertex + 1].visited = 0]

-----------------------------------------------------------------------------
(* minheap.c: the Node struct and the heap operations *)

\* a + b and a - b leave the range of int (undefined behaviour in C).
AddOverflows(a, b) == IF b > 0 THEN a > INT_MAX - b ELSE a < INT_MIN - b

SubOverflows(a, b) == IF b < 0 THEN a > INT_MAX + b ELSE a < INT_MIN + b

\* a + b and a - b as a two's complement build computes them (modulo 2^32),
\* written so that no intermediate value leaves the 32-bit range.
WrapAdd(a, b) ==
    IF ~AddOverflows(a, b) THEN a + b
    ELSE IF b > 0 THEN (a + INT_MIN) + (b + INT_MIN)
    ELSE (a - INT_MIN) + (b - INT_MIN)

WrapSub(a, b) ==
    IF ~SubOverflows(a, b) THEN a - b
    ELSE IF b < 0 THEN (a + INT_MIN) - (b - INT_MIN)
    ELSE (a - INT_MIN) - (b + INT_MIN)

\* C's int division truncates toward zero: (0 - 1) / 2 = 0.
CDiv(a, b) == IF a >= 0 THEN a \div b ELSE -((-a) \div b)

\* Mutant: the division rounds down, as floor() of the exact quotient would.
ParentPosition_Floor(position) == (position - 1) \div 2

ParentPosition(position) == CDiv(position - 1, 2)

nodeConstructor(G, position, vertex) ==
    [ value         |-> graphGetVertex(G, vertex).distanceFromSource,
      position      |-> position,
      hasChildLeft  |-> 0,
      hasChildRight |-> 0,
      vertex        |-> vertex ]

minHeapIsEmpty(h) == Len(h) = 0

\* Mutant: the Nodes are swapped but the Vertices are not told.
swapNode_VerticesNotTold(h, G, cur, other) ==
    LET X  == h[cur + 1]
        Y  == h[other + 1]
        X2 == [X EXCEPT !.hasChildLeft = Y.hasChildLeft,
                        !.hasChildRight = Y.hasChildRight,
                        !.position = other]
        Y2 == [Y EXCEPT !.hasChildLeft = X.hasChildLeft,
                        !.hasChildRight = X.hasChildRight,
                        !.position = cur]
    IN  [ heap |-> [h EXCEPT ![cur + 1] = Y2, ![other + 1] = X2],
          adjLists |-> G ]

\* The heap and the graph after swapNode(minHeap, cur, other).
swapNode(h, G, cur, other) ==
    LET X  == h[cur + 1]
        Y  == h[other + 1]
        X2 == [X EXCEPT !.hasChildLeft = Y.hasChildLeft,
                        !.hasChildRight = Y.hasChildRight,
                        !.position = other]
        Y2 == [Y EXCEPT !.hasChildLeft = X.hasChildLeft,
                        !.hasChildRight = X.hasChildRight,
                        !.position = cur]
    IN  [ heap |-> [h EXCEPT ![cur + 1] = Y2, ![other + 1] = X2],
          adjLists |-> vertexSetPositionInHeap(
                           vertexSetPositionInHeap(G, X.vertex, other),
                           Y.vertex, cur) ]

\* Mutant: a new Node stays in the slot it was put in.
SiftUpCondition_NoSift(h, cur) == FALSE

\* Mutant: a tie with the parent is swapped too.
SiftUpCondition_OrEqual(h, cur) ==
    h[cur + 1].value <= h[ParentPosition(cur) + 1].value

\* The sift-up loop's condition at slot cur.
SiftUpCondition(h, cur) ==
    h[cur + 1].value < h[ParentPosition(cur) + 1].value

\* minHeapEnqueue up to the sift-up loop: the new Node in the last slot, the
\* Vertex told its slot, the parent told it has a child.
EnqueueNode(h, G, vertex) ==
    LET size   == Len(h)
        parent == ParentPosition(size)
        h1     == Append(h, nodeConstructor(G, size, vertex))
        h2     == IF size > 0
                  THEN IF size % 2 = 0
                       THEN [h1 EXCEPT ![parent + 1].hasChildRight = 1]
                       ELSE [h1 EXCEPT ![parent + 1].hasChildLeft = 1]
                  ELSE h1
    IN  [ heap |-> h2,
          adjLists |-> vertexSetPositionInHeap(G, vertex, size) ]

\* Mutant: the last Node is dropped and the top Node stays in slot 0.
DequeueNode_TopKept(h, G) ==
    LET size   == Len(h)
        parent == CDiv(size - 2, 2)
        h2     == IF size % 2 = 0
                  THEN [h EXCEPT ![parent + 1].hasChildLeft = 0]
                  ELSE [h EXCEPT ![parent + 1].hasChildRight = 0]
    IN  IF size > 1
        THEN [ heap |-> SubSeq(h2, 1, size - 1),
               adjLists |-> G,
               minVertex |-> h[1].vertex ]
        ELSE [ heap |-> << >>, adjLists |-> G, minVertex |-> h[1].vertex ]

\* Mutant: the Node moved to slot 0 keeps its own child flags (lines 389 and
\* 390 left out).
DequeueNode_OwnFlags(h, G) ==
    LET size     == Len(h)
        tempNode == h[1]
        last     == h[size]
        moved    == [last EXCEPT !.position = 0]
        h1       == [h EXCEPT ![1] = moved]
        parent   == CDiv(size - 2, 2)
        h2       == IF size % 2 = 0
                    THEN [h1 EXCEPT ![parent + 1].hasChildLeft = 0]
                    ELSE [h1 EXCEPT ![parent + 1].hasChildRight = 0]
    IN  IF size > 1
        THEN [ heap |-> SubSeq(h2, 1, size - 1),
               adjLists |-> vertexSetPositionInHeap(G, last.vertex, 0),
               minVertex |-> tempNode.vertex ]
        ELSE [ heap |-> << >>, adjLists |-> G, minVertex |-> tempNode.vertex ]

\* minHeapDequeue up to the call of minHeapSiftDown: the last Node moved to
\* slot 0 with the old top's child flags, its old parent told it lost a child.
DequeueNode(h, G) ==
    LET size     == Len(h)
        tempNode == h[1]
        last     == h[size]
        moved    == [last EXCEPT !.position = 0,
                                 !.hasChildLeft = tempNode.hasChildLeft,
                                 !.hasChildRight = tempNode.hasChildRight]
        h1       == [h EXCEPT ![1] = moved]
        parent   == CDiv(size - 2, 2)
        h2       == IF size % 2 = 0
                    THEN [h1 EXCEPT ![parent + 1].hasChildLeft = 0]
                    ELSE [h1 EXCEPT ![parent + 1].hasChildRight = 0]
    IN  IF size > 1
        THEN [ heap |-> SubSeq(h2, 1, size - 1),
               adjLists |-> vertexSetPositionInHeap(G, last.vertex, 0),
               minVertex |-> tempNode.vertex ]
        ELSE [ heap |-> << >>, adjLists |-> G, minVertex |-> tempNode.vertex ]

\* Line 273, (rightValue - leftValue) <= 0: the right child is the one to swap
\* with. The subtraction may leave the range of int, which is undefined: a
\* build that wraps tests the wrapped difference, a build that folds the test
\* into rightValue <= leftValue tests the exact one.
RightIsSmaller(leftValue, rightValue) ==
    {WrapSub(rightValue, leftValue) <= 0, rightValue <= leftValue}

\* The slots one iteration of minHeapSiftDown's loop may swap slot cur with;
\* none when the loop ends there (no child, or "In correct position").
SiftDownTargets(h, cur) ==
    LET n     == h[cur + 1]
        left  == 2 * cur + 1
        right == 2 * cur + 2
    IN  IF n.hasChildLeft = 0 /\ n.hasChildRight = 0 THEN {}
        ELSE IF n.hasChildLeft = 1 /\ n.hasChildRight = 1
        THEN LET leftValue  == h[left + 1].value
                 rightValue == h[right + 1].value
             IN  IF n.value >= leftValue \/ n.value >= rightValue
                 THEN {IF b THEN right ELSE left :
                          b \in RightIsSmaller(leftValue, rightValue)}
                 ELSE {}
        ELSE IF n.hasChildLeft = 1
        THEN IF n.value >= h[left + 1].value THEN {left} ELSE {}
        ELSE IF n.value >= h[right + 1].value THEN {right} ELSE {}

\* The iteration at slot cur computes rightValue - leftValue out of range.
SiftDownOverflows(h, cur) ==
    LET n == h[cur + 1]
    IN  /\ n.hasChildLeft = 1
        /\ n.hasChildRight = 1
        /\ \/ n.value >= h[2 * cur + 2].value
           \/ n.value >= h[2 * cur + 3].value
        /\ SubOverflows(h[2 * cur + 3].value, h[2 * cur + 2].value)

\* minHeapDecreaseNodeValue up to the sift-up loop: the slot the Vertex
\* records gets the Vertex's distance.
DecreaseNode(h, G, vertex) ==
    LET cur == graphGetVertex(G, vertex).positionInHeap
    IN  [h EXCEPT ![cur + 1].value =
                      graphGetVertex(G, vertex).distanceFromSource]

-----------------------------------------------------------------------------
(* The two sift loops, one swap per step (minheap.c) *)

InHeap(h, vertex) == \E p \in 1 .. Len(h) : h[p].vertex = vertex

\* One iteration of the sift-up loop of minHeapEnqueue and
\* minHeapDecreaseNodeValue; the loop returns when its condition fails.
SiftUpStep ==
    /\ pc = "siftUp"
    /\ LET parent == ParentPosition(currentPosition)
           s      == swapNode(heap, adjLists, currentPosition, parent)
           again  == SiftUpCondition(s.heap, parent)
       IN  /\ heap' = s.heap
           /\ adjLists' = s.adjLists
           /\ currentPosition' = IF again THEN parent ELSE 0
           /\ pc' = IF again THEN "siftUp" ELSE ret
           /\ ret' = IF again THEN ret ELSE "none"
    /\ UNCHANGED <<source, dest, i, u, j, route, walk, output, popped, lastOp>>
    /\ UNCHANGED <<query, answered>>

\* One iteration of minHeapSiftDown's loop.
SiftDownStep ==
    /\ pc = "siftDown"
    /\ \E target \in SiftDownTargets(heap, currentPosition) :
       LET s      == swapNode(heap, adjLists, currentPosition, target)
           again  == SiftDownTargets(s.heap, target) # {}
       IN  /\ heap' = s.heap
           /\ adjLists' = s.adjLists
           /\ currentPosition' = IF again THEN target ELSE 0
           /\ pc' = IF again THEN "siftDown" ELSE ret
           /\ ret' = IF again THEN ret ELSE "none"
    /\ UNCHANGED <<source, dest, i, u, j, route, walk, output, popped, lastOp>>
    /\ UNCHANGED <<query, answered>>

\* Signed overflow is undefined behaviour: beside wrapping, a build may trap.
\* It happens where dijkstras adds distanceFromSource(u) + distance for an
\* unvisited end vertex, and where minHeapSiftDown subtracts
\* rightValue - leftValue.
OverflowTrap ==
    /\ IF pc = "relax"
       THEN /\ j < Len(graphGetVertex(adjLists, u).edges)
            /\ LET edgeOfU == graphGetVertex(adjLists, u).edges[j + 1]
               IN  /\ graphGetVertex(adjLists, edgeOfU.end).visited = 0
                   /\ AddOverflows(
                          graphGetVertex(adjLists, u).distanceFromSource,
                          edgeOfU.distance)
       ELSE /\ pc = "siftDown"
            /\ SiftDownOverflows(heap, currentPosition)
    /\ pc' = "crash"
    /\ UNCHANGED <<adjLists, heap, ret, currentPosition, source, dest, i, u,
                   j, route, walk, output, popped, lastOp>>
    /\ UNCHANGED <<query, answered>>

-----------------------------------------------------------------------------
(* The heap driven on its own: any sequence of minHeapEnqueue,            *)
(* minHeapDequeue and minHeapDecreaseNodeValue from an empty heap, on     *)
(* vertices without edges.                                                 *)

HeapInit ==
    /\ adjLists = [k \in 1 .. MaxHeapVertices |-> vertexConstructor(k - 1, "X")]
    /\ heap = << >>
    /\ pc = "heapIdle"
    /\ ret = "none"
    /\ currentPosition = 0
    /\ source = NoVertex
    /\ dest = NoVertex
    /\ i = 0
    /\ u = NoVertex
    /\ j = 0
    /\ route = << >>
    /\ walk = << >>
    /\ output = << >>
    /\ popped = << >>
    /\ lastOp = "none"
    /\ query = << >>
    /\ answered = FALSE

LastTwo(seq) == IF Len(seq) > 2 THEN SubSeq(seq, Len(seq) - 1, Len(seq)) ELSE seq

\* minHeapEnqueue(minHeap, vertex) on a vertex that is not enqueued, whose
\* distance the caller has set to value.
HeapEnqueue(vertex, value) ==
    /\ pc = "heapIdle"
    /\ ~InHeap(heap, vertex)
    /\ \A other \in 0 .. vertex - 1 : InHeap(heap, other)
    /\ LET G == vertexSetDistanceFromSource(adjLists, vertex, value)
           e == EnqueueNode(heap, G, vertex)
           again == SiftUpCondition(e.heap, Len(heap))
       IN  /\ heap' = e.heap
           /\ adjLists' = e.adjLists
           /\ currentPosition' = IF again THEN Len(heap) ELSE 0
           /\ pc' = IF again THEN "siftUp" ELSE "heapIdle"
           /\ ret' = IF again THEN "heapIdle" ELSE "none"
    /\ popped' = << >>
    /\ lastOp' = "enqueue"
    /\ UNCHANGED <<source, dest, i, u, j, route, walk, output>>
    /\ UNCHANGED <<query, answered>>

\* minHeapDequeue(minHeap) on a non-empty heap.
HeapDequeue ==
    /\ pc = "heapIdle"
    /\ ~minHeapIsEmpty(heap)
    /\ LET d == DequeueNode(heap, adjLists)
           again == Len(d.heap) > 0 /\ SiftDownTargets(d.heap, 0) # {}
       IN  /\ heap' = d.heap
           /\ adjLists' = d.adjLists
           /\ u' = d.minVertex
           /\ popped' = LastTwo(Append(popped, <<d.minVertex, heap[1].value>>))
           /\ currentPosition' = 0
           /\ pc' = IF again THEN "siftDown" ELSE "heapIdle"
           /\ ret' = IF again THEN "heapIdle" ELSE "none"
    /\ lastOp' = "dequeue"
    /\ UNCHANGED <<source, dest, i, j, route, walk, output>>
    /\ UNCHANGED <<query, answered>>

\* minHeapDecreaseNodeValue(minHeap, vertex) on an enqueued vertex whose
\* distance the caller has lowered to value.
HeapDecrease(vertex, value) ==
    /\ pc = "heapIdle"
    /\ InHeap(heap, vertex)
    /\ value < graphGetVertex(adjLists, vertex).distanceFromSource
    /\ LET G == vertexSetDistanceFromSource(adjLists, vertex, value)
           cur == graphGetVertex(G, vertex).positionInHeap
           h == DecreaseNode(heap, G, vertex)
           again == SiftUpCondition(h, cur)
       IN  /\ heap' = h
           /\ adjLists' = G
           /\ currentPosition' = IF again THEN cur ELSE 0
           /\ pc' = IF again THEN "siftUp" ELSE "heapIdle"
           /\ ret' = IF again THEN "heapIdle" ELSE "none"
    /\ popped' = << >>
    /\ lastOp' = "decrease"
    /\ UNCHANGED <<source, dest, i, u, j, route, walk, output>>
    /\ UNCHANGED <<query, answered>>

HeapNext ==
    \/ \E vertex \in 0 .. MaxHeapVertices - 1 : \E value \in HeapValues :
           HeapEnqueue(vertex, value)
    \/ HeapDequeue
    \/ \E vertex \in 0 .. MaxHeapVertices - 1 :
           \E value \in HeapValues \cup WrappedValues : HeapDecrease(vertex, value)
    \/ SiftUpStep
    \/ SiftDownStep
    \/ OverflowTrap

HeapSpec == HeapInit /\ [][HeapNext]_vars

-----------------------------------------------------------------------------
(* graph.c: building the graph from the edge records *)

edgeConstructor(distance, start, end) ==
    [ start |-> start, end |-> end, distance |-> distance ]

\* graphVertexResize(graph, graph->numberOfCities, string)
graphVertexResize(G, string) == Append(G, vertexConstructor(Len(G), string))

\* The k the loop of checkStringsKnown leaves in *vertexNumber: the last
\* vertex with that city name, -1 when no vertex has it.
LastVertexNamed(G, string) ==
    LET ks == {k \in 0 .. Len(G) - 1 : G[k + 1].cityName = string}
    IN  IF ks = {} THEN -1 ELSE CHOOSE k \in ks : \A m \in ks : m <= k

\* checkStringsKnown: the graph with the unknown names added, and the two
\* vertex numbers it hands back.
checkStringsKnown(G, stringA, stringB) ==
    LET kA == LastVertexNamed(G, stringA)
        kB == LastVertexNamed(G, stringB)
        G1 == IF kA = -1 THEN graphVertexResize(G, stringA) ELSE G
        G2 == IF kB = -1 THEN graphVertexResize(G1, stringB) ELSE G1
    IN  [ adjLists      |-> G2,
          vertexNumberA |-> IF kA = -1 THEN Len(G) ELSE kA,
          vertexNumberB |-> IF kB = -1 THEN Len(G1) ELSE kB ]

\* Mutant: the reverse Edge (lines 432 to 440) is not created.
addEdge_OneWay(G, start, end, distance) ==
    [G EXCEPT ![start + 1].edges =
         Append(@, edgeConstructor(distance, start, end))]

\* addEdge: the Edge start -> end goes to the end of start's edges, then the
\* Edge end -> start to the end of end's edges.
addEdge(G, start, end, distance) ==
    LET G1 == [G EXCEPT ![start + 1].edges =
                   Append(@, edgeConstructor(distance, start, end))]
    IN  [G1 EXCEPT ![end + 1].edges =
                   Append(@, edgeConstructor(distance, end, start))]

\* Mutant: the search goes on after a match, as in checkStringsKnown.
graphGetVertexNumber_LastMatch(G, string) == LastVertexNamed(G, string)

\* graphGetVertexNumber: the first vertex with that city name. No value is
\* returned for an unknown name (the loop falls through to exit(-1), line
\* 630); -1 stands for that.
graphGetVertexNumber(G, string) ==
    LET ks == {k \in 0 .. Len(G) - 1 : G[k + 1].cityName = string}
    IN  IF ks = {} THEN -1 ELSE CHOOSE k \in ks : \A m \in ks : k <= m

RECURSIVE NumberOfEdges(_, _)
NumberOfEdges(G, k) ==
    IF k = 0 THEN 0 ELSE Len(G[k].edges) + NumberOfEdges(G, k - 1)

\* The records read so far: each stored two edges.
RecordsLoaded(G) == NumberOfEdges(G, Len(G)) \div 2

NameSet == {Names[k] : k \in 1 .. Len(Names)}

KnownNames(G) == {G[k].cityName : k \in 1 .. Len(G)}

\* City names are only compared for equality, so the records are enumerated
\* up to renaming: a name not seen before is the first unused one of Names.
FreshName(known, string) ==
    /\ Cardinality(known) < Len(Names)
    /\ string = Names[Cardinality(known) + 1]

RecordNames(G, stringA, stringB) ==
    /\ stringA \in KnownNames(G) \/ FreshName(KnownNames(G), stringA)
    /\ \/ stringB \in KnownNames(G) \cup {stringA}
       \/ FreshName(KnownNames(G) \cup {stringA}, stringB)

-----------------------------------------------------------------------------
(* The program: main.c loads the graph, then answers the queries *)

Init ==
    /\ adjLists = << >>
    /\ heap = << >>
    /\ pc = "load"
    /\ ret = "none"
    /\ currentPosition = 0
    /\ source = NoVertex
    /\ dest = NoVertex
    /\ i = 0
    /\ u = NoVertex
    /\ j = 0
    /\ route = << >>
    /\ walk = << >>
    /\ output = << >>
    /\ popped = << >>
    /\ lastOp = "none"
    /\ query = << >>
    /\ answered = FALSE

\* Mutant: only a negative distance is rejected.
DistanceRejected_NegativeOnly(distance) == distance < 0

\* Line 531: the record's distance makes graphPopulateGraph exit.
DistanceRejected(distance) == distance <= 0

\* One iteration of graphPopulateGraph's loop: a record (start, end, distance).
LoadRecord(start, end, distance) ==
    /\ pc = "load"
    /\ RecordsLoaded(adjLists) < MaxRecords
    /\ RecordNames(adjLists, start, end)
    /\ LET c == checkStringsKnown(adjLists, start, end)
       IN  IF DistanceRejected(distance)
           THEN /\ adjLists' = c.adjLists
                /\ pc' = "exit"
           ELSE /\ adjLists' = addEdge(c.adjLists, c.vertexNumberA,
                                       c.vertexNumberB, distance)
                /\ pc' = "load"
    /\ UNCHANGED <<heap, ret, currentPosition, source, dest, i, u, j, route,
                   walk, output, popped, lastOp>>
    /\ UNCHANGED <<query, answered>>

\* The end of ukcities.txt: graphPopulateGraph returns, fastestRoute starts.
EndOfCities ==
    /\ pc = "load"
    /\ pc' = "query"
    /\ UNCHANGED <<adjLists, heap, ret, currentPosition, source, dest, i, u,
                   j, route, walk, output, popped, lastOp>>
    /\ UNCHANGED <<query, answered>>

\* Mutant: only the lookup of the start city can end the program; the lookup
\* of the end city hands -1 to fastestRoute.
UnknownCityExits_StartOnly(G, start, end) == graphGetVertexNumber(G, start) = -1

\* One of the two calls of graphGetVertexNumber in fastestRoute (lines 146,
\* 147) reaches exit(-1).
UnknownCityExits(G, start, end) ==
    graphGetVertexNumber(G, start) = -1 \/ graphGetVertexNumber(G, end) = -1

\* One iteration of fastestRoute's loop up to the reset loop of dijkstras:
\* both names are resolved, then dijkstras sets the source's distance to 0.
ReadQuery(start, end) ==
    /\ pc = "query"
    /\ LET startVertexNumber == graphGetVertexNumber(adjLists, start)
           endVertexNumber   == graphGetVertexNumber(adjLists, end)
       IN  IF UnknownCityExits(adjLists, start, end)
           THEN /\ pc' = "exit"
                /\ UNCHANGED <<adjLists, source, dest>>
           ELSE /\ adjLists' = vertexSetDistanceFromSource(
                                   adjLists, startVertexNumber, 0)
                /\ source' = startVertexNumber
                /\ dest' = endVertexNumber
                /\ pc' = "reset"
    /\ query' = <<start, end>>
    /\ i' = 0
    /\ output' = << >>
    /\ popped' = << >>
    /\ lastOp' = "none"
    /\ UNCHANGED <<heap, ret, currentPosition, u, j, route, walk, answered>>

\* The end of citypairs.txt.
EndOfQueries ==
    /\ pc = "query"
    /\ pc' = "done"
    /\ UNCHANGED <<adjLists, heap, ret, currentPosition, source, dest, i, u,
                   j, route, walk, output, popped, lastOp>>
    /\ UNCHANGED <<query, answered>>

-----------------------------------------------------------------------------
(* dijkstras.c: dijkstras *)

\* Mutant: the source is reset to INT_MAX like every other vertex.
ResetVertex_NoSourceTest(G, vertex, src) ==
    vertexSetIsNotVisited(
        vertexSetPrevious(
            vertexSetDistanceFromSource(G, vertex, INT_MAX), vertex, NoVertex),
        vertex)

\* Lines 47-54: every vertex but the source gets distance INT_MAX, and every
\* vertex gets no previous and is not visited.
ResetVertex(G, vertex, src) ==
    LET G1 == IF vertex # src
              THEN vertexSetDistanceFromSource(G, vertex, INT_MAX)
              ELSE G
    IN  vertexSetIsNotVisited(vertexSetPrevious(G1, vertex, NoVertex), vertex)

\* Mutant: only a vertex that has no distance yet is updated.
ShorterPathFound_FirstOnly(alternateRoute, distanceOfV) ==
    alternateRoute < distanceOfV /\ distanceOfV = INT_MAX

\* Line 85: "If new shorter path found".
ShorterPathFound(alternateRoute, distanceOfV) == alternateRoute < distanceOfV

\* One iteration of the reset loop: vertex i is reset and enqueued.
ResetStep ==
    /\ pc = "reset"
    /\ i < graphGetNumberOfCities(adjLists)
    /\ LET G2 == ResetVertex(adjLists, i, source)
           e  == EnqueueNode(heap, G2, i)
           again == SiftUpCondition(e.heap, Len(heap))
           next  == IF i + 1 < graphGetNumberOfCities(adjLists)
                    THEN "reset" ELSE "loop"
       IN  /\ heap' = e.heap
           /\ adjLists' = e.adjLists
           /\ currentPosition' = IF again THEN Len(heap) ELSE 0
           /\ pc' = IF again THEN "siftUp" ELSE next
           /\ ret' = IF again THEN next ELSE "none"
           /\ i' = IF next = "reset" THEN i + 1 ELSE 0
    /\ lastOp' = "enqueue"
    /\ UNCHANGED <<source, dest, u, j, route, walk, output, popped>>
    /\ UNCHANGED <<query, answered>>

\* u = minHeapDequeue(minHeap) at the head of the while loop.
DequeueStep ==
    /\ pc = "loop"
    /\ ~minHeapIsEmpty(heap)
    /\ LET d == DequeueNode(heap, adjLists)
           again == Len(d.heap) > 0 /\ SiftDownTargets(d.heap, 0) # {}
       IN  /\ heap' = d.heap
           /\ adjLists' = d.adjLists
           /\ u' = d.minVertex
           /\ popped' = Append(popped, <<d.minVertex, heap[1].value>>)
           /\ currentPosition' = 0
           /\ pc' = IF again THEN "siftDown" ELSE "relax"
           /\ ret' = IF again THEN "relax" ELSE "none"
    /\ j' = 0
    /\ lastOp' = "dequeue"
    /\ UNCHANGED <<source, dest, i, route, walk, output>>
    /\ UNCHANGED <<query, answered>>

\* The body of the for loop for edge j of u, alternateRoute being computed
\* as a two's complement build computes it.
RelaxStep ==
    /\ pc = "relax"
    /\ j < Len(graphGetVertex(adjLists, u).edges)
    /\ LET edgeOfU == graphGetVertex(adjLists, u).edges[j + 1]
           v == edgeOfU.end
           alternateRoute ==
               WrapAdd(graphGetVertex(adjLists, u).distanceFromSource,
                       edgeOfU.distance)
           G == vertexSetPrevious(
                    vertexSetDistanceFromSource(adjLists, v, alternateRoute),
                    v, u)
           cur == graphGetVertex(G, v).positionInHeap
           h == DecreaseNode(heap, G, v)
           again == SiftUpCondition(h, cur)
       IN  IF /\ graphGetVertex(adjLists, v).visited = 0
              /\ ShorterPathFound(
                     alternateRoute,
                     graphGetVertex(adjLists, v).distanceFromSource)
           THEN IF cur >= 0 /\ cur < Len(heap)
                THEN /\ adjLists' = G
                     /\ heap' = h
                     /\ currentPosition' = IF again THEN cur ELSE 0
                     /\ pc' = IF again THEN "siftUp" ELSE "relax"
                     /\ ret' = IF again THEN "relax" ELSE "none"
                     /\ lastOp' = "decrease"
                     /\ j' = j + 1
                ELSE \* minHeap->heap[cur] lies outside the heap array
                     /\ adjLists' = G
                     /\ pc' = "crash"
                     /\ lastOp' = "decrease"
                     /\ UNCHANGED <<heap, currentPosition, ret, j>>
           ELSE /\ j' = j + 1
                /\ UNCHANGED <<adjLists, heap, currentPosition, pc, ret, lastOp>>
    /\ UNCHANGED <<source, dest, i, u, route, walk, output, popped>>
    /\ UNCHANGED <<query, answered>>

\* vertexSetIsVisited(u) after the for loop.
MarkVisited ==
    /\ pc = "relax"
    /\ j = Len(graphGetVertex(adjLists, u).edges)
    /\ adjLists' = vertexSetIsVisited(adjLists, u)
    /\ pc' = "loop"
    /\ j' = 0
    /\ u' = NoVertex
    /\ UNCHANGED <<heap, ret, currentPosition, source, dest, i, route, walk,
                   output, popped, lastOp>>
    /\ UNCHANGED <<query, answered>>

\* The while loop ends on the empty heap and dijkstras returns.
DijkstrasReturn ==
    /\ pc = "loop"
    /\ minHeapIsEmpty(heap)
    /\ pc' = "write"
    /\ UNCHANGED <<adjLists, heap, ret, currentPosition, source, dest, i, u,
                   j, route, walk, output, popped, lastOp>>
    /\ UNCHANGED <<query, answered>>

-----------------------------------------------------------------------------
(* dijkstras.c: dijkstrasWriteToFile *)

\* Mutant: the route is printed in the order it was collected.
Reverse_Forward(seq) == seq

RECURSIVE Reverse(_)
Reverse(seq) ==
    IF seq = << >> THEN << >> ELSE Append(Reverse(Tail(seq)), Head(seq))

\* Lines 148-162: the "<source> to <destination> is <distance>km" line is
\* written and the route starts with the destination.
WriteHeader ==
    /\ pc = "write"
    /\ output' = [ sourceName         |-> graphGetVertex(adjLists, source).cityName,
                   destinationName    |-> graphGetVertex(adjLists, dest).cityName,
                   distanceFromSource |->
                       graphGetVertex(adjLists, dest).distanceFromSource,
                   source             |-> source,
                   destination        |-> dest,
                   route              |-> << >>,
                   walk               |-> << >>,
                   written            |-> "header" ]
    /\ route' = <<graphGetVertex(adjLists, dest).cityName>>
    /\ walk' = <<dest>>
    /\ i' = dest
    /\ pc' = "walk"
    /\ UNCHANGED <<adjLists, heap, ret, currentPosition, source, dest, u, j,
                   popped, lastOp>>
    /\ UNCHANGED <<query, answered>>

\* One iteration of the while loop that follows the previous pointers.
WalkStep ==
    /\ pc = "walk"
    /\ graphGetVertex(adjLists, i).previous # NoVertex
    /\ Len(route) <= graphGetNumberOfCities(adjLists)
    /\ LET p == graphGetVertex(adjLists, i).previous
       IN  /\ route' = Append(route, graphGetVertex(adjLists, p).cityName)
           /\ walk' = Append(walk, p)
           /\ i' = graphGetVertex(adjLists, p).vertexNumber
    /\ UNCHANGED <<adjLists, heap, pc, ret, currentPosition, source, dest, u,
                   j, output, popped, lastOp>>
    /\ UNCHANGED <<query, answered>>

\* The walk has taken more steps than there are vertices: it is on a cycle
\* of previous pointers and the while loop never ends.
WalkDiverges ==
    /\ pc = "walk"
    /\ graphGetVertex(adjLists, i).previous # NoVertex
    /\ Len(route) > graphGetNumberOfCities(adjLists)
    /\ pc' = "diverge"
    /\ UNCHANGED <<adjLists, heap, ret, currentPosition, source, dest, i, u,
                   j, route, walk, output, popped, lastOp>>
    /\ UNCHANGED <<query, answered>>

\* The walk ends on a vertex without previous; the route is printed from its
\* last entry to its first, and fastestRoute reads the next query.
WriteRoute ==
    /\ pc = "walk"
    /\ graphGetVertex(adjLists, i).previous = NoVertex
    /\ output' = [output EXCEPT !.route = Reverse(route),
                                !.walk = Reverse(walk),
                                !.written = "route"]
    /\ route' = << >>
    /\ walk' = << >>
    /\ i' = 0
    /\ source' = NoVertex
    /\ dest' = NoVertex
    /\ pc' = "query"
    /\ query' = << >>
    /\ answered' = TRUE
    /\ UNCHANGED <<adjLists, heap, ret, currentPosition, u, j, popped, lastOp>>

Next ==
    \/ \E start \in NameSet, end \in NameSet, distance \in Weights \cup BadWeights :
           LoadRecord(start, end, distance)
    \/ EndOfCities
    \/ \E start \in NameSet, end \in NameSet : ReadQuery(start, end)
    \/ EndOfQueries
    \/ ResetStep
    \/ SiftUpStep
    \/ DequeueStep
    \/ SiftDownStep
    \/ RelaxStep
    \/ OverflowTrap
    \/ MarkVisited
    \/ DijkstrasReturn
    \/ WriteHeader
    \/ WalkStep
    \/ WalkDiverges
    \/ WriteRoute

Spec == Init /\ [][Next]_vars

-----------------------------------------------------------------------------
(* What the claims speak of *)

\* All edges stored in the graph, as <<start, end, distance>>.
EdgesOf(G) ==
    UNION {{<<k - 1, G[k].edges[e].end, G[k].edges[e].distance>> :
              e \in 1 .. Len(G[k].edges)} : k \in 1 .. Len(G)}

\* The pairs <<vertex, weight>> of best: for each vertex the least weight
\* of a path to it that is known in best or extends one of best by an edge.
ExtendPaths(edges, best) ==
    LET found == best \cup
                 {<<t[2][2], t[1][2] + t[2][3]>> :
                     t \in {x \in best \X edges : x[2][1] = x[1][1]}}
    IN  {c \in found : \A o \in found : o[1] = c[1] => c[2] <= o[2]}

RECURSIVE LeastPaths(_, _, _)
LeastPaths(edges, best, k) ==
    IF k = 0 THEN best ELSE LeastPaths(edges, ExtendPaths(edges, best), k - 1)

\* The least total weight of a path from src to each vertex with a path from
\* src, as <<vertex, weight>>, by the graph's edges alone.
MinimumDistance(G, src) == LeastPaths(EdgesOf(G), {<<src, 0>>}, Len(G))

Reachable(G, src, v) == \E c \in MinimumDistance(G, src) : c[1] = v

\* Every slot's value is at most the values of its children 2p + 1, 2p + 2.
HeapOrdered(h) ==
    \A p \in 0 .. Len(h) - 1 :
        /\ 2 * p + 1 < Len(h) => h[p + 1].value <= h[2 * p + 2].value
        /\ 2 * p + 2 < Len(h) => h[p + 1].value <= h[2 * p + 3].value

\* The entries of the heap, as <<vertex, value>>.
Entries(h) == {<<h[p].vertex, h[p].value>> : p \in 1 .. Len(h)}

Vertices == 0 .. Len(adjLists) - 1

Distance(v) == graphGetVertex(adjLists, v).distanceFromSource

Previous(v) == graphGetVertex(adjLists, v).previous

-----------------------------------------------------------------------------
(* Claims about a run of dijkstras (specification Spec) *)

\* C1: when dijkstras has returned, the distanceFromSource of every vertex
\* reachable from the source is the least total weight of a path from the
\* source to it (parallel edges counted one by one).
C1_ShortestDistances ==
    pc = "write" =>
        \A c \in MinimumDistance(adjLists, source) : Distance(c[1]) = c[2]

\* C1's case: a run has returned on a graph where a two-edge detour (1 + 1)
\* beats the direct edge (3) from the source.
C1_Witness ==
    /\ pc = "write"
    /\ \E v \in Vertices :
           /\ v # source
           /\ Distance(v) = 2
           /\ <<source, v, 3>> \in EdgesOf(adjLists)

\* C2: when dijkstras has returned, every vertex without a path from the
\* source has distance INT_MAX and no previous.
C2_UnreachableKeepSentinel ==
    pc = "write" =>
        \A v \in Vertices :
            ~Reachable(adjLists, source, v) =>
                Distance(v) = INT_MAX /\ Previous(v) = NoVertex

\* C3: dijkstrasWriteToFile writes no distance-and-route rendering for a
\* destination whose distance is the unreached sentinel.
C3_NoRouteForUnreachable ==
    output # << >> => output.distanceFromSource # INT_MAX

\* The reset phase of the run is over.
AfterReset ==
    \/ pc \in {"loop", "relax", "siftDown"}
    \/ pc = "siftUp" /\ ret = "relax"

\* C8: in a run, a decrease-key writes a value strictly smaller than the one
\* the slot held, no heap slot's value grows, and no vertex's distance grows
\* after the reset phase.
C8_ValuesOnlyDecrease ==
    [][(pc = "relax" /\ pc' \in {"relax", "siftUp"}) =>
          /\ \A v \in Vertices :
                 graphGetVertex(adjLists', v).distanceFromSource <= Distance(v)
          /\ \A p \in 1 .. Len(heap) : heap'[p].value <= heap[p].value
          /\ heap' # heap =>
                 \E p \in 1 .. Len(heap) : heap'[p].value < heap[p].value]_vars

\* Every consecutive pair of the walk w is joined by a stored edge whose
\* weight is the difference of the two distances.
RouteFollowsEdges(w) ==
    \A k \in 1 .. Len(w) - 1 :
        <<w[k], w[k + 1], Distance(w[k + 1]) - Distance(w[k])>>
            \in EdgesOf(adjLists)

\* C9: for a reachable destination the written route starts with the
\* source's name, ends with the destination's name, every consecutive pair
\* is joined by a stored edge whose weight is the difference of the two
\* distances, and these weights sum to the destination's distance; for
\* destination = source it is the source's name alone.
C9_RouteRoundTrip ==
    (/\ output # << >>
     /\ output.written = "route"
     /\ Reachable(adjLists, output.source, output.destination)) =>
        /\ Len(output.route) >= 1
        /\ output.route[1] = output.sourceName
        /\ output.route[Len(output.route)] = output.destinationName
        /\ output.walk[1] = output.source
        /\ output.walk[Len(output.walk)] = output.destination
        /\ output.route =
               [k \in 1 .. Len(output.walk) |->
                   graphGetVertex(adjLists, output.walk[k]).cityName]
        /\ RouteFollowsEdges(output.walk)
        /\ Distance(output.source) = 0
        /\ output.distanceFromSource = Distance(output.destination)
        /\ output.source = output.destination => Len(output.route) = 1

\* C9's case: a route of three cities has been written.
C9_Witness ==
    /\ output # << >>
    /\ output.written = "route"
    /\ Reachable(adjLists, output.source, output.destination)
    /\ Len(output.route) = 3
    /\ output.distanceFromSource = 2

\* C10: from the end of the reset phase to the end of the run the source has
\* distance 0 and no previous.
C10_SourceStaysZero ==
    (AfterReset \/ pc \in {"write", "walk", "crash", "diverge"}) =>
        Distance(source) = 0 /\ Previous(source) = NoVertex

\* C10's case: a run has finished from a source that is not the first vertex
\* and has a neighbour and an edge to itself.
C10_Witness ==
    /\ pc = "write"
    /\ source > 0
    /\ \E v \in Vertices : v # source /\ Previous(v) = source
    /\ \E w \in Weights : <<source, source, w>> \in EdgesOf(adjLists)

-----------------------------------------------------------------------------
(* Claims about the heap (specification HeapSpec) *)

\* C4: after every enqueue, dequeue and decrease-key the heap is ordered:
\* value(parent(p)) <= value(p) for every slot p > 0.
C4_HeapOrdered == pc = "heapIdle" => HeapOrdered(heap)

\* C5: after every heap operation and every swap inside it, each enqueued
\* vertex's positionInHeap is the slot of its Node, and so is the Node's
\* position field.
C5_PositionsAgree ==
    \A p \in 1 .. Len(heap) :
        /\ heap[p].position = p - 1
        /\ graphGetVertex(adjLists, heap[p].vertex).positionInHeap = p - 1

\* C5's case: a sift-up is between two swaps, its Node now in slot 1.
C5_Witness ==
    /\ pc = "siftUp"
    /\ currentPosition = 1
    /\ Len(heap) = 4

\* C6: a dequeue returns the vertex of a least value, shrinks the heap by
\* one and leaves the other entries, each once, with their values; the
\* sift-down that follows keeps the entries.
C6_DequeueRemovesMinimum ==
    [][/\ Len(heap') < Len(heap) =>
              /\ Len(heap') = Len(heap) - 1
              /\ u' = heap[1].vertex
              /\ \E c \in Entries(heap) :
                     /\ c[1] = u'
                     /\ \A o \in Entries(heap) : c[2] <= o[2]
                     /\ Entries(heap') = Entries(heap) \ {c}
              /\ Cardinality(Entries(heap')) = Len(heap')
       /\ pc = "siftDown" =>
              /\ Len(heap') = Len(heap)
              /\ Entries(heap') = Entries(heap)]_vars

\* C7: dequeues with no other operation in between return non-decreasing
\* values (popped holds the last two of them).
C7_DequeuesNonDecreasing ==
    Len(popped) = 2 => popped[1][2] <= popped[2][2]

-----------------------------------------------------------------------------
(* Further claims about a run of dijkstras (specification Spec) *)

\* The relaxation loop is running, or the run is over.
InOrAfterRun == AfterReset \/ pc \in {"write", "walk", "query", "done"}

\* C11: in the relaxation loop and after the run, every vertex v with a
\* previous has distanceFromSource(v) = distanceFromSource(previous(v)) + w
\* for the weight w of an edge previous(v) -> v stored in the graph.
C11_DistanceFollowsPrevious ==
    InOrAfterRun =>
        \A v \in Vertices :
            Previous(v) # NoVertex =>
                \E e \in EdgesOf(adjLists) :
                    /\ e[1] = Previous(v)
                    /\ e[2] = v
                    /\ ~AddOverflows(Distance(Previous(v)), e[3])
                    /\ Distance(v) = Distance(Previous(v)) + e[3]

\* The vertices dequeued so far in the run, in order.
Dequeued == [k \in 1 .. Len(popped) |-> popped[k][1]]

\* C12: a run of dijkstras is never cut short; it never dequeues a vertex
\* twice, and when it returns it has dequeued each of the n vertices once,
\* marked each of them visited, and left the heap empty.
C12_RunTerminates ==
    /\ pc # "crash"
    /\ AfterReset =>
           /\ Len(popped) <= graphGetNumberOfCities(adjLists)
           /\ \A k, m \in 1 .. Len(popped) : Dequeued[k] = Dequeued[m] => k = m
           /\ Len(popped) + Len(heap) = graphGetNumberOfCities(adjLists)
    /\ pc = "write" =>
           /\ Len(popped) = graphGetNumberOfCities(adjLists)
           /\ {Dequeued[k] : k \in 1 .. Len(popped)} = Vertices
           /\ \A v \in Vertices : graphGetVertex(adjLists, v).visited = 1
           /\ minHeapIsEmpty(heap)

\* C14: every sum distanceFromSource(u) + distance that the relaxation loop
\* computes (line 82, for an edge of u to a vertex not yet visited) stays in
\* the range of int and is a non-negative number below INT_MAX.
C14_SumsBelowSentinel ==
    (pc = "relax" /\ j < Len(graphGetVertex(adjLists, u).edges)) =>
        LET edgeOfU == graphGetVertex(adjLists, u).edges[j + 1]
        IN  graphGetVertex(adjLists, edgeOfU.end).visited = 0 =>
                /\ ~AddOverflows(Distance(u), edgeOfU.distance)
                /\ Distance(u) + edgeOfU.distance >= 0
                /\ Distance(u) + edgeOfU.distance < INT_MAX

-----------------------------------------------------------------------------
(* Claims about loading the graph and the batch of queries (specification  *)
(* Spec)                                                                   *)

\* C13: after any sequence of records no two vertices have the same city
\* name, and there are as many vertices as distinct names seen.
C13_NamesAreUnique ==
    /\ \A k, m \in 1 .. Len(adjLists) :
           adjLists[k].cityName = adjLists[m].cityName => k = m
    /\ graphGetNumberOfCities(adjLists) = Cardinality(KnownNames(adjLists))

\* C15: no edge of distance <= 0 is ever stored; a record with such a
\* distance ends the program there: it stores no edge, no run has been or is
\* started, and nothing happens after the exit.
C15_BadWeightAborts ==
    /\ [](\A e \in EdgesOf(adjLists) : e[3] >= 1)
    /\ [][/\ pc # "exit"
          /\ (pc = "load" /\ pc' = "exit") =>
                 /\ \A k \in 1 .. Len(adjLists) :
                        adjLists'[k].edges = adjLists[k].edges
                 /\ \A k \in Len(adjLists) + 1 .. Len(adjLists') :
                        adjLists'[k].edges = << >>
                 /\ minHeapIsEmpty(heap')
                 /\ source' = NoVertex
                 /\ query' = << >>
                 /\ ~answered']_vars

\* C15's case: the program has exited on the record after the first, which
\* named a city not seen before and carried a distance <= 0.
C15_Witness ==
    /\ pc = "exit"
    /\ query = << >>
    /\ RecordsLoaded(adjLists) = 1
    /\ graphGetNumberOfCities(adjLists) = 3
    /\ graphGetVertex(adjLists, 2).edges = << >>

\* Both names of the query that was read are names of vertices.
QueryKnown(q, G) == q[1] \in KnownNames(G) /\ q[2] \in KnownNames(G)

\* C16: a query with a name that is not in the graph ends the batch there:
\* no run is started for it and nothing is written, dijkstras and
\* dijkstrasWriteToFile only ever work on vertices of the graph, nothing
\* follows the exit, and a query is read only when the one before it has been
\* answered in full.
C16_UnknownNameHaltsBatch ==
    /\ [](pc \in {"reset", "loop", "relax", "siftUp", "siftDown", "write", "walk"}
            => source \in Vertices /\ dest \in Vertices)
    /\ [][/\ pc # "exit"
          /\ (pc = "query" /\ query' # << >>) =>
                 IF QueryKnown(query', adjLists)
                 THEN pc' = "reset"
                 ELSE /\ pc' = "exit"
                      /\ adjLists' = adjLists
                      /\ minHeapIsEmpty(heap')
                      /\ output' = << >>
          /\ pc' = "query" =>
                 \/ pc = "load" /\ ~answered'
                 \/ pc = "walk" /\ output'.written = "route" /\ answered']_vars

\* C16's case: after an answered query the batch has halted on a query whose
\* start is a city of the graph and whose end is not.
C16_Witness ==
    /\ pc = "exit"
    /\ answered
    /\ query # << >>
    /\ query[1] \in KnownNames(adjLists)
    /\ query[2] \notin KnownNames(adjLists)

\* Vertex k is the first vertex of G whose city name is string.
IsFirstNamed(G, k, string) ==
    /\ k \in 0 .. Len(G) - 1
    /\ G[k + 1].cityName = string
    /\ \A m \in 0 .. k - 1 : G[m + 1].cityName # string

AsBuilt(G) ==
    [k \in 1 .. Len(G) |->
        [vertexConstructor(k - 1, G[k].cityName) EXCEPT !.edges = G[k].edges]]

\* The sift-up loop run to its end from slot cur.
RECURSIVE SiftUp(_, _, _)
SiftUp(h, G, cur) ==
    IF SiftUpCondition(h, cur)
    THEN LET s == swapNode(h, G, cur, ParentPosition(cur))
         IN  SiftUp(s.heap, s.adjLists, ParentPosition(cur))
    ELSE [heap |-> h, adjLists |-> G]

\* Iterations from .. to - 1 of the reset loop of dijkstras on graph G and
\* heap h.
RECURSIVE ResetLoop(_, _, _, _, _)
ResetLoop(G, h, from, to, src) ==
    IF from >= to THEN [heap |-> h, adjLists |-> G]
    ELSE LET e == EnqueueNode(h, ResetVertex(G, from, src), from)
             s == SiftUp(e.heap, e.adjLists, Len(h))
         IN  ResetLoop(s.adjLists, s.heap, from + 1, to, src)

\* The first k iterations of the reset loop of a run from src on the graph
\* as built, with an empty heap (line 42 has set the source's distance).
FreshRun(G, src, k) ==
    ResetLoop(vertexSetDistanceFromSource(AsBuilt(G), src, 0), << >>, 0, k, src)

\* C18: whatever runs came before, the reset loop leaves the state a single
\* run from the same source has on the graph as built with a fresh heap:
\* after k iterations the heap and the first k vertices are the same, and
\* at the end of the loop the whole graph, the heap and the loop's variables
\* are, so the run that follows and its distances and previous are the same.
C18_ResetRemovesEarlierRuns ==
    /\ pc = "reset" =>
           LET fresh == FreshRun(adjLists, source, i)
           IN  /\ heap = fresh.heap
               /\ \A k \in 1 .. i : adjLists[k] = fresh.adjLists[k]
    /\ (pc = "loop" /\ popped = << >>) =>
           LET fresh == FreshRun(adjLists, source, Len(adjLists))
           IN  /\ heap = fresh.heap
               /\ Len(fresh.adjLists) = Len(adjLists)
               /\ \A k \in 1 .. Len(adjLists) : adjLists[k] = fresh.adjLists[k]
               /\ ret = "none" /\ currentPosition = 0
               /\ u = NoVertex /\ i = 0 /\ j = 0

\* C18's case: a query has been answered and the reset loop of a later run,
\* from a source that had to be sifted up, has ended.
C18_Witness ==
    /\ pc = "loop"
    /\ popped = << >>
    /\ answered
    /\ source > 0
    /\ Len(heap) >= 4

\* The edge list of vertex k in G, empty for a vertex G does not have yet.
EdgesBefore(G, k) == IF k < Len(G) THEN G[k + 1].edges ELSE << >>

\* The number of stored Edges from vertex a to vertex b of that distance.
EdgeCount(G, a, b, distance) ==
    Cardinality({k \in 1 .. Len(G[a + 1].edges) :
                     /\ G[a + 1].edges[k].end = b
                     /\ G[a + 1].edges[k].distance = distance})

\* C19: a loaded record puts one Edge a -> b at the end of a's edges and one
\* Edge b -> a of the same distance at the end of b's edges (both at the end
\* of the same list, in that order, when a = b), keeps the edges that were
\* there, in their order, and leaves every other vertex's edges alone; so in
\* every graph there are as many Edges a -> b of a distance as Edges b -> a
\* of that distance, every stored Edge starts at the vertex whose list holds
\* it, and a second record for the same pair adds a second pair of Edges.
C19_RecordAppendsBothEdges ==
    /\ [](\A a, b \in 0 .. Len(adjLists) - 1 :
              /\ \A distance \in Weights :
                     EdgeCount(adjLists, a, b, distance) =
                         EdgeCount(adjLists, b, a, distance)
              /\ \A k \in 1 .. Len(adjLists[a + 1].edges) :
                     adjLists[a + 1].edges[k].start = a)
    /\ [][(pc = "load" /\ pc' = "load") =>
              \E a, b \in 0 .. Len(adjLists') - 1 : \E distance \in Weights :
                  LET ab == edgeConstructor(distance, a, b)
                      ba == edgeConstructor(distance, b, a)
                  IN  /\ Len(adjLists') >= Len(adjLists)
                      /\ IF a = b
                         THEN adjLists'[a + 1].edges =
                                  EdgesBefore(adjLists, a) \o <<ab, ba>>
                         ELSE /\ adjLists'[a + 1].edges =
                                     EdgesBefore(adjLists, a) \o <<ab>>
                              /\ adjLists'[b + 1].edges =
                                     EdgesBefore(adjLists, b) \o <<ba>>
                      /\ \A k \in 0 .. Len(adjLists') - 1 :
                             k \notin {a, b} =>
                                 adjLists'[k + 1].edges =
                                     EdgesBefore(adjLists, k)]_vars

\* C19's case: three records were loaded, two of them for the same pair of
\* vertices and with the same distance, and both pairs of Edges are stored.
C19_Witness ==
    /\ RecordsLoaded(adjLists) = 3
    /\ \E a, b \in 0 .. Len(adjLists) - 1 : \E distance \in Weights :
           /\ a # b
           /\ EdgeCount(adjLists, a, b, distance) = 2
           /\ EdgeCount(adjLists, b, a, distance) = 2

\* The names checkStringsKnown is handed that no vertex of G has.
UnknownOf(G, stringA, stringB) ==
    {string \in {stringA, stringB} : string \notin KnownNames(G)}

\* Vertex numbers are the positions in adjLists.
IndicesDense(G) == \A k \in 1 .. Len(G) : G[k].vertexNumber = k - 1

\* What checkStringsKnown does for every pair of names on graph G: the
\* vertices G has are kept, each number handed back is that of a vertex with
\* the name asked for, and of two names not known before the first gets the
\* lower number.
ResolvesInOrder(G) ==
    \A stringA, stringB \in NameSet :
        LET c == checkStringsKnown(G, stringA, stringB)
        IN  /\ \A k \in 1 .. Len(G) : c.adjLists[k] = G[k]
            /\ IndicesDense(c.adjLists)
            /\ graphGetVertex(c.adjLists, c.vertexNumberA).cityName = stringA
            /\ graphGetVertex(c.adjLists, c.vertexNumberB).cityName = stringB
            /\ UnknownOf(G, stringA, stringB) = {stringA, stringB} =>
                   /\ c.vertexNumberA = Len(G)
                   /\ c.vertexNumberB = Len(G) + 1

\* No step changes the number or the name of a vertex or takes a vertex away.
IdentityKept ==
    /\ Len(adjLists') >= Len(adjLists)
    /\ \A k \in 1 .. Len(adjLists) :
           /\ adjLists'[k].vertexNumber = adjLists[k].vertexNumber
           /\ adjLists'[k].cityName = adjLists[k].cityName

\* A vertex is added for the first appearance of a name only: the names of
\* the vertices a step adds are names no vertex had, one vertex per name.
AddedAtFirstAppearance ==
    \A k, m \in Len(adjLists) + 1 .. Len(adjLists') :
        /\ adjLists'[k].cityName \notin KnownNames(adjLists)
        /\ adjLists'[k].cityName = adjLists'[m].cityName => k = m

\* C20: vertex numbers are dense (adjLists[i].vertexNumber = i), a number
\* and a name once given are never changed or given again, and numbers are
\* given in order of first appearance: one new vertex per name not seen
\* before, the first name of a record before its second.
C20_IndicesByFirstAppearance ==
    /\ [](IndicesDense(adjLists))
    /\ [](pc = "load" => ResolvesInOrder(adjLists))
    /\ [][IdentityKept /\ AddedAtFirstAppearance]_vars

-----------------------------------------------------------------------------
(* Claims about the heap's bookkeeping during a run *)

\* No sift loop is running: the program is between two heap operations.
BetweenHeapOperations == pc \notin {"siftUp", "siftDown"}

\* C21: between heap operations a vertex that is not in the heap (never
\* enqueued, or dequeued) has positionInHeap = -1, and the positionInHeap of
\* a vertex in the heap is the slot that holds it.
C21_AbsentHasSentinel ==
    BetweenHeapOperations =>
        \A v \in Vertices :
            LET position == graphGetVertex(adjLists, v).positionInHeap
            IN  IF InHeap(heap, v)
                THEN /\ position \in 0 .. Len(heap) - 1
                     /\ heap[position + 1].vertex = v
                ELSE position = -1

\* The reset loop has ended and nothing has been dequeued yet.
ResetDone == pc = "loop" /\ popped = << >>

\* C22: at the end of the reset loop, whatever the source's vertex number,
\* the heap holds every vertex once with the source in slot 0 with value 0,
\* no vertex has a previous or is visited, every vertex but the source has
\* distance INT_MAX; and the first vertex a run dequeues is the source.
C22_SourceSurfacesFirst ==
    /\ ResetDone =>
           /\ Len(heap) = graphGetNumberOfCities(adjLists)
           /\ \A v \in Vertices : InHeap(heap, v)
           /\ heap[1].vertex = source
           /\ heap[1].value = 0
           /\ Distance(source) = 0
           /\ \A v \in Vertices :
                  /\ Previous(v) = NoVertex
                  /\ graphGetVertex(adjLists, v).visited = 0
                  /\ v # source => Distance(v) = INT_MAX
    /\ (source # NoVertex /\ popped # << >>) => popped[1] = <<source, 0>>

\* C22's case: in a graph of three vertices or more a run from the vertex
\* created last has made its first dequeue.
C22_Witness ==
    /\ pc = "relax"
    /\ Len(popped) = 1
    /\ graphGetNumberOfCities(adjLists) >= 3
    /\ source = graphGetNumberOfCities(adjLists) - 1

\* The step is a call of minHeapDecreaseNodeValue on vertex v: a relaxation
\* has just given v a new distance.
DecreaseCalledOn(v) ==
    /\ pc = "relax"
    /\ pc' # "loop"
    /\ adjLists'[v + 1].distanceFromSource # adjLists[v + 1].distanceFromSource

\* C23: minHeapDecreaseNodeValue is only called on a vertex that is in the
\* heap, with positionInHeap the slot that holds it; never on a vertex that
\* has been dequeued, never on an empty heap.
C23_DecreaseOnlyWhenEnqueued ==
    [][\A v \in Vertices :
           DecreaseCalledOn(v) =>
               LET position == graphGetVertex(adjLists, v).positionInHeap
               IN  /\ ~minHeapIsEmpty(heap)
                   /\ InHeap(heap, v)
                   /\ position \in 0 .. Len(heap) - 1
                   /\ heap[position + 1].vertex = v]_vars

\* C24: in every state of the heap (after every enqueue, dequeue and swap of
\* a sift loop) slot p has hasChildLeft set exactly when slot 2p + 1 exists
\* and hasChildRight set exactly when slot 2p + 2 exists; so no slot has a
\* right child without a left one, and the child slots an iteration of
\* minHeapSiftDown reads exist.
C24_ChildFlagsMatchSize ==
    /\ \A p \in 0 .. Len(heap) - 1 :
           /\ heap[p + 1].hasChildLeft = (IF 2 * p + 1 < Len(heap) THEN 1 ELSE 0)
           /\ heap[p + 1].hasChildRight = (IF 2 * p + 2 < Len(heap) THEN 1 ELSE 0)
           /\ heap[p + 1].hasChildRight = 1 => heap[p + 1].hasChildLeft = 1
    /\ pc = "siftDown" =>
           /\ currentPosition \in 0 .. Len(heap) - 1
           /\ \A target \in SiftDownTargets(heap, currentPosition) :
                  target \in 1 .. Len(heap) - 1

\* C24's case: a dequeue has left three entries and its sift-down is about
\* to swap slot 0 with one of its two children.
C24_Witness ==
    /\ pc = "siftDown"
    /\ lastOp = "dequeue"
    /\ Len(heap) = 3
    /\ currentPosition = 0

\* C25: between heap operations (after each enqueue of the reset loop and
\* after each relaxation's decrease-key) the value of every entry of the
\* heap is the distanceFromSource of the entry's vertex.
C25_ValuesMirrorDistances ==
    BetweenHeapOperations =>
        \A p \in 1 .. Len(heap) : heap[p].value = Distance(heap[p].vertex)

-----------------------------------------------------------------------------
(* Claims about the walk along the previous links and about relaxation *)

\* Following previous from vertex v ends on a vertex without previous after
\* at most k steps.
RECURSIVE PreviousEnds(_, _)
PreviousEnds(v, k) ==
    IF Previous(v) = NoVertex THEN TRUE
    ELSE IF k = 0 THEN FALSE
    ELSE PreviousEnds(Previous(v), k - 1)

\* C26: after a completed run the previous links form no cycle (no vertex is
\* its own previous), so for every destination the loop of
\* dijkstrasWriteToFile ends after fewer than numberOfCities steps; and when
\* the destination can be reached from the source the walk stops on the
\* source.
C26_WalkEndsOnSource ==
    /\ pc # "diverge"
    /\ pc \in {"write", "walk"} =>
           \A v \in Vertices :
               /\ Previous(v) # v
               /\ PreviousEnds(v, graphGetNumberOfCities(adjLists) - 1)
    /\ pc = "walk" =>
           /\ Len(walk) <= graphGetNumberOfCities(adjLists)
           /\ (Previous(i) = NoVertex /\ Reachable(adjLists, source, dest)) =>
                  i = source

-----------------------------------------------------------------------------
(* Claims about the sift loops (specification HeapSpec) *)

\* The slots other than a and b hold the same vertices after the step.
OnlySwapped(a, b) ==
    /\ Len(heap') = Len(heap)
    /\ heap'[a + 1].vertex = heap[b + 1].vertex
    /\ heap'[b + 1].vertex = heap[a + 1].vertex
    /\ \A p \in 0 .. Len(heap) - 1 :
           p \notin {a, b} => heap'[p + 1].vertex = heap[p + 1].vertex

\* C27: the sift-up loop of minHeapEnqueue and minHeapDecreaseNodeValue
\* swaps the entry with its parent only when its value is strictly smaller
\* than the parent's, and goes on only while that is so: an entry with the
\* value of its parent is not moved. An enqueue leaves every entry that was
\* there in its slot unless the sift-up swaps it down, and an entry that is
\* swapped down has a value greater than the new entry's.
C27_SiftUpSwapsOnlyWhenSmaller ==
    [][/\ pc = "siftUp" =>
              LET parent == ParentPosition(currentPosition)
              IN  /\ heap[currentPosition + 1].value < heap[parent + 1].value
                  /\ OnlySwapped(currentPosition, parent)
                  /\ pc' = "siftUp" =>
                         /\ currentPosition' = parent
                         /\ heap'[parent + 1].value <
                                heap'[ParentPosition(parent) + 1].value
       /\ (pc # "siftUp" /\ pc' = "siftUp") =>
              heap'[currentPosition' + 1].value <
                  heap'[ParentPosition(currentPosition') + 1].value
       /\ (pc # "siftUp" /\ Len(heap') = Len(heap) + 1) =>
              /\ lastOp' = "enqueue"
              /\ \A p \in 1 .. Len(heap) : heap'[p].vertex = heap[p].vertex
              /\ heap'[Len(heap')].value >=
                     heap'[ParentPosition(Len(heap)) + 1].value =>
                         pc' # "siftUp"
       /\ (pc = "siftUp" /\ lastOp = "enqueue") =>
              \A p \in 1 .. Len(heap) :
                  (heap[p].value <= heap[currentPosition + 1].value
                       /\ p # currentPosition + 1) =>
                      heap'[p].vertex = heap[p].vertex]_vars

\* C27's case: an enqueue has ended with its entry in the last of four
\* slots, the entry's value being that of its parent in slot 1.
C27_Witness ==
    /\ pc = "heapIdle"
    /\ lastOp = "enqueue"
    /\ Len(heap) = 4
    /\ heap[4].vertex = 3
    /\ heap[4].value = heap[2].value

\* The slot the entry in slot cur of h is to be swapped with by the rule of
\* C28, -1 when it is to stay: with two children, the right child when
\* right <= left and the left child otherwise, if the entry's value is >= the
\* smaller of the two; with one child, that child if the entry's value is >=
\* the child's.
SwapRule(h, cur) ==
    LET value == h[cur + 1].value
        left  == 2 * cur + 1
        right == 2 * cur + 2
    IN  IF right < Len(h)
        THEN LET leftValue  == h[left + 1].value
                 rightValue == h[right + 1].value
                 smaller    == IF rightValue <= leftValue
                               THEN rightValue ELSE leftValue
             IN  IF value >= smaller
                 THEN IF rightValue <= leftValue THEN right ELSE left
                 ELSE -1
        ELSE IF left < Len(h)
        THEN IF value >= h[left + 1].value THEN left ELSE -1
        ELSE -1

\* C28: every iteration of the sift-down loop of minHeapDequeue swaps the
\* entry with the slot the rule names and with no other, and the loop runs
\* exactly as long as the rule names a slot: it starts after the dequeue
\* when the rule names a slot for slot 0, goes on from the slot swapped with
\* when the rule names one there, and stops otherwise.
C28_SiftDownFollowsRule ==
    [][/\ pc = "siftDown" =>
              LET target == SwapRule(heap, currentPosition)
              IN  /\ target # -1
                  /\ OnlySwapped(currentPosition, target)
                  /\ pc' = "siftDown" <=> SwapRule(heap', target) # -1
                  /\ pc' = "siftDown" => currentPosition' = target
       /\ (pc # "siftDown" /\ Len(heap') = Len(heap) - 1) =>
              (pc' = "siftDown" <=>
                   (~minHeapIsEmpty(heap') /\ SwapRule(heap', 0) # -1))]_vars

\* a + b < c for the integers a, b and c, not for what an int can hold.
SumIsLess(a, b, c) == ~AddOverflows(a, b) /\ a + b < c

\* The step writes the distanceFromSource or the previous of vertex v.
Relaxed(v) ==
    \/ adjLists'[v + 1].distanceFromSource # adjLists[v + 1].distanceFromSource
    \/ adjLists'[v + 1].previous # adjLists[v + 1].previous

\* C29: in the relaxation loop the distance and previous of a vertex v are
\* written only by the relaxation of an edge u -> v of weight w, with v not
\* visited and distance(u) + w < distance(v), and then become
\* distance(u) + w and u; the distance and previous of a visited vertex are
\* not written before the next run starts.
C29_RelaxOnlyWhenShorter ==
    [][/\ pc = "relax" =>
              \A v \in Vertices :
                  Relaxed(v) =>
                      /\ j < Len(graphGetVertex(adjLists, u).edges)
                      /\ LET edgeOfU == graphGetVertex(adjLists, u).edges[j + 1]
                         IN  /\ edgeOfU.end = v
                             /\ graphGetVertex(adjLists, v).visited = 0
                             /\ SumIsLess(Distance(u), edgeOfU.distance,
                                          Distance(v))
                             /\ adjLists'[v + 1].distanceFromSource =
                                    Distance(u) + edgeOfU.distance
                             /\ adjLists'[v + 1].previous = u
       /\ pc \notin {"query", "reset"} =>
              \A v \in Vertices :
                  graphGetVertex(adjLists, v).visited = 1 => ~Relaxed(v)]_vars

\* C30: once the graph is loaded no step of dijkstras, of the heap or of
\* dijkstrasWriteToFile changes the number of vertices, a vertex's number or
\* name, or a vertex's edges (end vertices, distances, order): only
\* distanceFromSource, previous, visited and positionInHeap are written.
C30_GraphStructureKept ==
    [][pc # "load" =>
           /\ Len(adjLists') = Len(adjLists)
           /\ \A k \in 1 .. Len(adjLists) :
                  /\ adjLists'[k].vertexNumber = adjLists[k].vertexNumber
                  /\ adjLists'[k].cityName = adjLists[k].cityName
                  /\ Len(adjLists'[k].edges) = Len(adjLists[k].edges)
                  /\ \A e \in 1 .. Len(adjLists[k].edges) :
                         adjLists'[k].edges[e] = adjLists[k].edges[e]]_vars

\* C30's case: a run on a graph of three records has been completed and its
\* route written; the run's marks are on the vertices.
C30_Witness ==
    /\ pc = "query"
    /\ answered
    /\ RecordsLoaded(adjLists) = 3
    /\ \A v \in Vertices : graphGetVertex(adjLists, v).visited = 1
    /\ \E v \in Vertices : Previous(v) # NoVertex

-----------------------------------------------------------------------------
(* dijkstras.c: dijkstrasPrintResult, and further claims about a run *)

\* The vertices for which dijkstrasPrintResult takes the else branch (line
\* 127) and calls vertexGetPreviousCityName, which reads
\* vertex->previous->cityName.
PreviousNameAsked(G) ==
    {k \in 0 .. Len(G) - 1 : graphGetVertex(G, k).distanceFromSource # 0}

\* C31: when a run has been completed every vertex whose distanceFromSource
\* is not 0 has a previous, so dijkstrasPrintResult asks for the name of the
\* previous city only of vertices that have one.
C31_PreviousNameExists ==
    pc = "write" =>
        \A v \in PreviousNameAsked(adjLists) : Previous(v) # NoVertex

\* The step is the dequeue at the head of the while loop of dijkstras.
DequeueTaken == pc = "loop" /\ Len(heap') = Len(heap) - 1

\* C32: the distance a vertex has when it is dequeued is its distance for
\* the rest of the run (no step before the next run's reset changes the
\* distance of the vertex being processed or of a visited vertex), and the
\* vertex dequeued has a distance that is at least the distance of every
\* vertex dequeued before it: the distances at dequeue never decrease.
C32_DequeueDistancesFinal ==
    [][/\ pc \notin {"query", "reset"} =>
              \A v \in Vertices :
                  (v = u \/ graphGetVertex(adjLists, v).visited = 1) =>
                      adjLists'[v + 1].distanceFromSource = Distance(v)
       /\ DequeueTaken =>
              \A v \in Vertices :
                  graphGetVertex(adjLists, v).visited = 1 =>
                      Distance(v) <= adjLists[u' + 1].distanceFromSource]_vars

\* The vertices that have an entry in heap h.
VerticesIn(h) == {h[p].vertex : p \in 1 .. Len(h)}

\* C33: at every point of the relaxation loop the heap holds exactly the
\* vertices that have not been dequeued in this run, each in one slot: its
\* size is the number of vertices less the number of dequeues, no vertex is
\* in two slots, no vertex was dequeued twice, and a visited vertex is one
\* that was dequeued and is not in the heap.
C33_HeapHoldsTheUndequeued ==
    AfterReset =>
        /\ Len(heap) = graphGetNumberOfCities(adjLists) - Len(popped)
        /\ \A p, q \in 1 .. Len(heap) : heap[p].vertex = heap[q].vertex => p = q
        /\ \A k, m \in 1 .. Len(popped) : Dequeued[k] = Dequeued[m] => k = m
        /\ VerticesIn(heap) =
               Vertices \ {Dequeued[k] : k \in 1 .. Len(popped)}
        /\ \A v \in Vertices :
               graphGetVertex(adjLists, v).visited = 1 =>
                   /\ v \notin VerticesIn(heap)
                   /\ \E k \in 1 .. Len(popped) : Dequeued[k] = v

\* C33's case: in a graph of four vertices or more the run has dequeued its
\* third vertex; two vertices are visited and one at least is in the heap.
C33_Witness ==
    /\ pc = "relax"
    /\ Len(popped) = 3
    /\ graphGetNumberOfCities(adjLists) >= 4
    /\ Len(heap) >= 1
    /\ \E v \in Vertices : graphGetVertex(adjLists, v).visited = 1

-----------------------------------------------------------------------------
(* minheap.c: the slots of minHeap->heap each operation reads or writes *)

\* minHeapEnqueue on heap h (lines 205 to 231): the new last slot, its
\* parent, and the two slots the sift-up loop compares first.
SlotsOfEnqueue(h) == {Len(h), ParentPosition(Len(h))}

\* minHeapDequeue on heap h (lines 374 to 410): slot 0, the last slot and,
\* with more than one Node, the last slot's parent.
SlotsOfDequeue(h) ==
    IF Len(h) > 1 THEN {0, Len(h) - 1, CDiv(Len(h) - 2, 2)} ELSE {0, Len(h) - 1}

\* minHeapDecreaseNodeValue for a vertex (lines 439 to 448): the slot the
\* Vertex records and that slot's parent.
SlotsOfDecrease(G, vertex) ==
    LET cur == graphGetVertex(G, vertex).positionInHeap
    IN  {cur, ParentPosition(cur)}

\* One iteration of a sift-up loop at slot cur: swapNode on cur and its
\* parent, then the loop's test on the parent and the parent's parent.
SlotsOfSiftUp(cur) ==
    {cur, ParentPosition(cur), ParentPosition(ParentPosition(cur))}

\* The slots the loop of minHeapSiftDown reads at slot cur of heap h: the
\* slot and the children its flags announce.
SlotsOfSiftDown(h, cur) ==
    {cur} \cup (IF h[cur + 1].hasChildLeft = 1 THEN {2 * cur + 1} ELSE {})
          \cup (IF h[cur + 1].hasChildRight = 1 THEN {2 * cur + 2} ELSE {})

-----------------------------------------------------------------------------
(* Claim about the slots the heap operations touch (HeapSpec) *)

\* C34: every slot that minHeapEnqueue, minHeapDecreaseNodeValue on an
\* enqueued vertex, minHeapDequeue on a non-empty heap, the sift loops and
\* swapNode read or write is a slot 0 .. size - 1 of the heap (size being
\* the size after the new Node was added, for an enqueue); the parent
\* computed for slot 0 is slot 0, never slot -1.
C34_SlotsWithinHeap ==
    /\ ParentPosition(0) = 0
    /\ pc = "heapIdle" =>
           /\ SlotsOfEnqueue(heap) \subseteq 0 .. Len(heap)
           /\ ~minHeapIsEmpty(heap) =>
                  SlotsOfDequeue(heap) \subseteq 0 .. Len(heap) - 1
           /\ \A v \in Vertices :
                  InHeap(heap, v) =>
                      SlotsOfDecrease(adjLists, v) \subseteq 0 .. Len(heap) - 1
    /\ pc = "siftUp" =>
           SlotsOfSiftUp(currentPosition) \subseteq 0 .. Len(heap) - 1
    /\ pc = "siftDown" =>
           /\ SlotsOfSiftDown(heap, currentPosition) \subseteq 0 .. Len(heap) - 1
           /\ \A target \in SiftDownTargets(heap, currentPosition) :
                  /\ target \in 0 .. Len(heap) - 1
                  /\ SlotsOfSiftDown(heap, target) \subseteq 0 .. Len(heap) - 1

\* C34's case: the sift-up of an enqueue into a heap of four is one level
\* below the root; its next swap moves the entry to slot 0, and the loop
\* then tests slot 0 against the parent computed for slot 0.
C34_Witness ==
    /\ pc = "siftUp"
    /\ lastOp = "enqueue"
    /\ Len(heap) = 4
    /\ currentPosition = 1

====
